---- MODULE Spec2Model ----
(***************************************************************************)
(* Model of create_results_and_steps.py: one result, a sweep of parent     *)
(* steps (one per current), each with a sweep of child steps (one per      *)
(* voltage), uploaded to the Test Monitor store as they are generated.      *)
(*                                                                         *)
(* Numbers.  random.uniform(0, 1) is drawn from the grid k / LossSteps,     *)
(* k in 0..LossSteps, so a loss factor 1 - u * 0.25 is the rational         *)
(* (4*LossSteps - k) / (4*LossSteps) and a power is carried exactly as the  *)
(* integer numerator of a fraction over PowerDen.                           *)
(* Optional values.  A field that is None or a value is a sequence of       *)
(* length 0 or 1; identities are positive integers and None is 0.           *)
(***************************************************************************)
EXTENDS Integers, Sequences, FiniteSets, TLC

\* ---------------------------------------------------------------- bounds
LossSteps == 2
MaxLimitIdx == 1

\* ------------------------------------------------------ program constants
NumCurrents == 10
NumVoltages == 10
MainLowLimit == 0
MainHighLimit == 70
None == 0

PowerDen == (4 * LossSteps) * (4 * LossSteps)
LossDraws == 0..LossSteps
LimitSet == {6 * k : k \in 0..MaxLimitIdx} \cup {MainHighLimit}
StatusTypes == {"RUNNING", "PASSED", "FAILED"}
Terminal == {"PASSED", "FAILED"}

VARIABLES
    pc,            \* position of main / create_child_steps
    current,       \* loop variable of main's sweep
    voltage,       \* loop variable of create_child_steps' sweep
    low_limit,     \* lower test limit
    high_limit,    \* upper test limit
    test_result,   \* main's in-memory result record
    parent_step,   \* in-memory parent step of the current group
    status,        \* status of the child measured last
    power,         \* power measured last (numerator over PowerDen)
    step_data,     \* step record built last, as <<record>> or <<>>
    measure_power_output_step, \* the child step as the store returned it
    store_results, \* the store: result id -> record
    store_steps,   \* the store: step id -> record
    nextId,        \* next identity the store assigns
    log,           \* every store request issued, in order
    raised,        \* a store call has raised
    printed        \* number of times main has printed the exception

vars == <<pc, current, voltage, low_limit, high_limit, test_result,
          parent_step, status, power, step_data, measure_power_output_step,
          store_results, store_steps, nextId, log, raised, printed>>

\* ------------------------------------------------------- pure functions

measure_power_mut_gain(cur, volt, k1, k2) ==
    LET current_loss == 4 * LossSteps + k1
        voltage_loss == 4 * LossSteps - k2
        p == cur * current_loss * volt * voltage_loss
    IN  [power   |-> p,
         inputs  |-> <<[name |-> "current", value |-> cur],
                       [name |-> "voltage", value |-> volt]>>,
         outputs |-> <<[name |-> "power", value |-> p]>>]

\* measure_power with the two random draws k1, k2 made explicit.
measure_power(cur, volt, k1, k2) ==
    LET current_loss == 4 * LossSteps - k1
        voltage_loss == 4 * LossSteps - k2
        p == cur * current_loss * volt * voltage_loss
    IN  [power   |-> p,
         inputs  |-> <<[name |-> "current", value |-> cur],
                       [name |-> "voltage", value |-> volt]>>,
         outputs |-> <<[name |-> "power", value |-> p]>>]

\* Decimal text of a natural number, as str() gives it.
RECURSIVE str(_)
str(n) ==
    IF n < 10 THEN <<n>> ELSE Append(str(n \div 10), n % 10)

evaluate_mut_strict(p, low, high) ==
    IF p <= low * PowerDen \/ p >= high * PowerDen THEN "FAILED" ELSE "PASSED"

\* The limit test of create_child_steps.
evaluate(p, low, high) ==
    IF p < low * PowerDen \/ p > high * PowerDen THEN "FAILED" ELSE "PASSED"

build_power_measurement_params_mut_swapped(p, low, high, st) ==
    [text |-> "",
     parameters |-> <<[name           |-> "Power Test",
                       status         |-> st,
                       measurement    |-> p,
                       units          |-> "Watts",
                       lowLimit       |-> str(high),
                       highLimit      |-> str(low),
                       comparisonType |-> "GELE"]>>]

\* build_power_measurement_params: the one comparison parameter of a child.
build_power_measurement_params(p, low, high, st) ==
    [text |-> "",
     parameters |-> <<[name           |-> "Power Test",
                       status         |-> st,
                       measurement    |-> p,
                       units          |-> "Watts",
                       lowLimit       |-> str(low),
                       highLimit      |-> str(high),
                       comparisonType |-> "GELE"]>>]

generate_step_data_mut_default(name, step_type, inputs, outputs, parameters, st) ==
    [stepId   |-> None,
     parentId |-> None,
     resultId |-> None,
     data     |-> parameters,
     name     |-> name,
     status   |-> "RUNNING",
     stepType |-> step_type,
     inputs   |-> inputs,
     outputs  |-> outputs]

\* generate_step_data; st is <<>> when no status is supplied.
generate_step_data(name, step_type, inputs, outputs, parameters, st) ==
    [stepId   |-> None,
     parentId |-> None,
     resultId |-> None,
     data     |-> parameters,
     name     |-> name,
     status   |-> IF st # <<>> THEN st[1] ELSE "RUNNING",
     stepType |-> step_type,
     inputs   |-> inputs,
     outputs  |-> outputs]

set_status_mut_swapped(step, st) ==
    IF st = "Passed" THEN [step EXCEPT !.status = "PASSED"]
    ELSE IF st = "Failed" THEN [step EXCEPT !.status = "PASSED"]
    ELSE step

\* The assignment part of update_step_status.
set_status(step, st) ==
    IF st = "Passed" THEN [step EXCEPT !.status = "PASSED"]
    ELSE IF st = "Failed" THEN [step EXCEPT !.status = "FAILED"]
    ELSE step

\* The record create_parent_step submits.
parent_step_data(result_id) ==
    [generate_step_data("Voltage Sweep", "SequenceCall", <<>>, <<>>, <<>>, <<>>)
        EXCEPT !.resultId = result_id]

child_step_data_mut_noparent(parent, result_id, m, low, high, st) ==
    [generate_step_data("Measure Power Output", "NumericLimit",
                        <<m.inputs>>, <<m.outputs>>,
                        <<build_power_measurement_params(m.power, low, high, st)>>,
                        <<st>>)
        EXCEPT !.resultId = result_id]

\* The record create_child_steps submits for one measurement m.
child_step_data(parent, result_id, m, low, high, st) ==
    [generate_step_data("Measure Power Output", "NumericLimit",
                        <<m.inputs>>, <<m.outputs>>,
                        <<build_power_measurement_params(m.power, low, high, st)>>,
                        <<st>>)
        EXCEPT !.parentId = parent.stepId, !.resultId = result_id]

child_failed_mut_never(st) == FALSE

child_failed_mut_always(st) == TRUE

\* Test after a child is created: does it fail the sweep?
child_failed(st) == st = "FAILED"

fold_target_mut_child(parent, child) == child

\* The step create_child_steps marks Failed after a failed child.
fold_target(parent, child) == parent

still_running_mut_never(step) == FALSE

still_running_mut_always(step) == TRUE

\* Test after the child loop: is the parent still running?
still_running(step) == step.status = "RUNNING"

sweep_done_mut_early(cur) == cur >= NumCurrents - 1

\* End of main's sweep over range(0, 10).
sweep_done(cur) == cur >= NumCurrents

test_result_data_mut_passed == [id |-> None, status |-> "PASSED"]

\* The result record main builds.
test_result_data == [id |-> None, status |-> "RUNNING"]

after_except_mut_resume == "main_loop"

\* Where main continues after the except block.
after_except == "done"

\* ------------------------------------------------------------ the store

\* What the store keeps of a step.
StoredStep(step) ==
    [status |-> step.status, parentId |-> step.parentId,
     resultId |-> step.resultId, stepType |-> step.stepType]

\* A request as it is recorded in the log (measured values left out).
StepRequest(op, step, ok) ==
    [op |-> op, ok |-> ok, id |-> step.stepId, parentId |-> step.parentId,
     resultId |-> step.resultId, status |-> step.status,
     stepType |-> step.stepType,
     data |-> IF step.data = <<>> THEN <<>>
              ELSE <<[p \in 1..Len(step.data[1].parameters) |->
                       [status         |-> step.data[1].parameters[p].status,
                        lowLimit       |-> step.data[1].parameters[p].lowLimit,
                        highLimit      |-> step.data[1].parameters[p].highLimit,
                        comparisonType |-> step.data[1].parameters[p].comparisonType]]>>,
     inputs |-> step.inputs,
     hasInputs |-> step.inputs # <<>>, hasOutputs |-> step.outputs # <<>>]

ResultRequest(op, res, ok) ==
    [op |-> op, ok |-> ok, id |-> res.id, parentId |-> None,
     resultId |-> res.id, status |-> res.status, stepType |-> "Result",
     data |-> <<>>, inputs |-> <<>>, hasInputs |-> FALSE, hasOutputs |-> FALSE]

\* create_steps(steps=[step]) answering; rsp is response["steps"][0].
create_steps(step, rsp) ==
    /\ rsp = [step EXCEPT !.stepId = nextId]
    /\ store_steps' = store_steps @@ (nextId :> StoredStep(rsp))
    /\ nextId' = nextId + 1
    /\ log' = Append(log, StepRequest("create_steps", rsp, TRUE))
    /\ UNCHANGED store_results

\* update_steps(steps=[step]) answering.
update_steps(step, rsp) ==
    /\ rsp = step
    /\ store_steps' = [store_steps EXCEPT ![step.stepId] = StoredStep(step)]
    /\ log' = Append(log, StepRequest("update_steps", step, TRUE))
    /\ UNCHANGED <<store_results, nextId>>

\* create_results(results=[res]) answering.
create_results(res, rsp) ==
    /\ rsp = [res EXCEPT !.id = nextId]
    /\ store_results' = store_results @@ (nextId :> [status |-> res.status])
    /\ nextId' = nextId + 1
    /\ log' = Append(log, ResultRequest("create_results", rsp, TRUE))
    /\ UNCHANGED store_steps

\* update_results(results=[res]) answering.
update_results(res, rsp) ==
    /\ rsp = res
    /\ store_results' = [store_results EXCEPT ![res.id] = [status |-> res.status]]
    /\ log' = Append(log, ResultRequest("update_results", res, TRUE))
    /\ UNCHANGED <<store_steps, nextId>>

\* A store call that raises: the request is refused, control goes to except.
store_raises(request) ==
    /\ log' = Append(log, request)
    /\ raised' = TRUE
    /\ pc' = "except"
    /\ UNCHANGED <<store_results, store_steps, nextId>>

\* ----------------------------------------------------------------- Init

NoStep == generate_step_data("", "", <<>>, <<>>, <<>>, <<>>)

Init ==
    /\ pc = "start"
    /\ current = 0
    /\ voltage = 0
    /\ low_limit = MainLowLimit
    /\ high_limit = MainHighLimit
    /\ test_result = test_result_data
    /\ parent_step = NoStep
    /\ status = "RUNNING"
    /\ power = 0
    /\ step_data = <<>>
    /\ measure_power_output_step = NoStep
    /\ store_results = <<>>
    /\ store_steps = <<>>
    /\ nextId = 1
    /\ log = <<>>
    /\ raised = FALSE
    /\ printed = 0

\* -------------------------------------------------------------- actions

\* main: build the result and create it on the store.
main_create_results ==
    /\ pc = "start"
    /\ \/ /\ \E rsp \in {[test_result EXCEPT !.id = nextId]} :
                /\ create_results(test_result, rsp)
                /\ test_result' = rsp
          /\ pc' = "main_loop"
          /\ UNCHANGED raised
       \/ /\ store_raises(ResultRequest("create_results", test_result, FALSE))
          /\ UNCHANGED test_result
    /\ UNCHANGED <<current, voltage, low_limit, high_limit, parent_step,
                   status, power, step_data, measure_power_output_step,
                   printed>>

\* create_parent_step, called by main for the next current.
create_parent_step ==
    /\ pc = "main_loop"
    /\ ~sweep_done(current)
    /\ LET sd == parent_step_data(test_result.id) IN
        /\ step_data' = <<sd>>
        /\ \/ /\ \E rsp \in {[sd EXCEPT !.stepId = nextId]} :
                    /\ create_steps(sd, rsp)
                    /\ parent_step' = rsp
              /\ pc' = "child_loop"
              /\ voltage' = 0
              /\ UNCHANGED raised
           \/ /\ store_raises(StepRequest("create_steps", sd, FALSE))
              /\ UNCHANGED <<parent_step, voltage>>
    /\ UNCHANGED <<current, low_limit, high_limit, test_result, status,
                   power, measure_power_output_step, printed>>

\* create_child_steps, loop body up to the creation of the child step.
create_child_steps_measure ==
    /\ pc = "child_loop"
    /\ voltage < NumVoltages
    /\ \E k1 \in LossDraws, k2 \in LossDraws :
        LET m  == measure_power(current, voltage, k1, k2)
            st == evaluate(m.power, low_limit, high_limit)
            sd == child_step_data(parent_step, test_result.id, m,
                                  low_limit, high_limit, st)
        IN  /\ power' = m.power
            /\ status' = st
            /\ step_data' = <<sd>>
            /\ \/ /\ \E rsp \in {[sd EXCEPT !.stepId = nextId]} :
                        /\ create_steps(sd, rsp)
                        /\ measure_power_output_step' = rsp
                  /\ pc' = "fold"
                  /\ UNCHANGED raised
               \/ /\ store_raises(StepRequest("create_steps", sd, FALSE))
                  /\ UNCHANGED measure_power_output_step
    /\ UNCHANGED <<current, voltage, low_limit, high_limit, test_result,
                   parent_step, printed>>

\* create_child_steps, rest of the loop body: a failed child fails the parent.
create_child_steps_fold ==
    /\ pc = "fold"
    /\ IF child_failed(status)
       THEN LET tgt == fold_target(parent_step, measure_power_output_step)
                upd == set_status(tgt, "Failed")
            IN
            \* set_status assigns into the record tgt names
            /\ measure_power_output_step' =
                   IF tgt = measure_power_output_step
                   THEN upd ELSE measure_power_output_step
            /\ \/ /\ \E rsp \in {upd} :
                       /\ update_steps(upd, rsp)
                       /\ parent_step' = rsp
                  /\ pc' = "child_loop"
                  /\ voltage' = voltage + 1
                  /\ UNCHANGED raised
               \/ /\ store_raises(StepRequest("update_steps", upd, FALSE))
                  /\ parent_step' = IF tgt = parent_step THEN upd ELSE parent_step
                  /\ UNCHANGED voltage
       ELSE /\ pc' = "child_loop"
            /\ voltage' = voltage + 1
            /\ UNCHANGED <<parent_step, measure_power_output_step,
                           store_results, store_steps, nextId, log, raised>>
    /\ UNCHANGED <<current, low_limit, high_limit, test_result, status,
                   power, step_data, printed>>

\* create_child_steps after the loop: close the parent and return to main.
create_child_steps_close ==
    /\ pc = "child_loop"
    /\ voltage >= NumVoltages
    /\ IF still_running(parent_step)
       THEN LET upd == set_status(parent_step, "Passed") IN
            \/ /\ \E rsp \in {upd} :
                    /\ update_steps(upd, rsp)
                    /\ parent_step' = rsp
               /\ pc' = "main_loop"
               /\ current' = current + 1
               /\ UNCHANGED raised
            \/ /\ store_raises(StepRequest("update_steps", upd, FALSE))
               /\ parent_step' = upd
               /\ UNCHANGED current
       ELSE /\ pc' = "main_loop"
            /\ current' = current + 1
            /\ UNCHANGED <<parent_step, store_results, store_steps, nextId,
                           log, raised>>
    /\ UNCHANGED <<voltage, low_limit, high_limit, test_result, status,
                   power, step_data, measure_power_output_step, printed>>

\* main after the sweep: update the result on the store.
main_update_results ==
    /\ pc = "main_loop"
    /\ sweep_done(current)
    /\ \/ /\ \E rsp \in {test_result} :
                /\ update_results(test_result, rsp)
                /\ test_result' = rsp
          /\ pc' = "done"
          /\ UNCHANGED raised
       \/ /\ store_raises(ResultRequest("update_results", test_result, FALSE))
          /\ UNCHANGED test_result
    /\ UNCHANGED <<current, voltage, low_limit, high_limit, parent_step,
                   status, power, step_data, measure_power_output_step,
                   printed>>

\* main's except block: print the exception and the advice.
main_except ==
    /\ pc = "except"
    /\ printed' = printed + 1
    /\ pc' = after_except
    /\ UNCHANGED <<current, voltage, low_limit, high_limit, test_result,
                   parent_step, status, power, step_data,
                   measure_power_output_step, store_results,
                   store_steps, nextId, log, raised>>

Next ==
    \/ main_create_results
    \/ create_parent_step
    \/ create_child_steps_measure
    \/ create_child_steps_fold
    \/ create_child_steps_close
    \/ main_update_results
    \/ main_except

Spec == Init /\ [][Next]_vars

\* main is one sequential program: it takes its next step whenever it has one.
SpecFair == Spec /\ WF_vars(Next)

\* ------------------------------------------- create_child_steps on its own

\* create_child_steps entered with any parent status, limits low <= high and
\* current: the result and the parent step exist on the store already.
InitChild ==
    /\ pc = "child_loop"
    /\ current \in 0..(NumCurrents - 1)
    /\ voltage = 0
    /\ low_limit \in LimitSet
    /\ high_limit \in LimitSet
    /\ low_limit <= high_limit
    /\ test_result = [test_result_data EXCEPT !.id = 1]
    /\ \E s \in StatusTypes :
         /\ parent_step = [parent_step_data(1) EXCEPT !.stepId = 2, !.status = s]
         /\ store_steps = (2 :> StoredStep(parent_step))
         /\ log = <<ResultRequest("create_results", test_result, TRUE),
                    StepRequest("create_steps", parent_step, TRUE)>>
    /\ status = "RUNNING"
    /\ power = 0
    /\ step_data = <<parent_step>>
    /\ measure_power_output_step = NoStep
    /\ store_results = (1 :> [status |-> test_result.status])
    /\ nextId = 3
    /\ raised = FALSE
    /\ printed = 0

NextChild ==
    \/ create_child_steps_measure
    \/ create_child_steps_fold
    \/ create_child_steps_close

SpecChild == InitChild /\ [][NextChild]_vars

\* ------------------------------------------------- reading the request log

Requests == 1..Len(log)
IsParentCreate(r) == r.op = "create_steps" /\ r.stepType = "SequenceCall"
IsChildCreate(r)  == r.op = "create_steps" /\ r.stepType = "NumericLimit"
ParentIds == {id \in DOMAIN store_steps : store_steps[id].stepType = "SequenceCall"}
ChildIds  == {id \in DOMAIN store_steps : store_steps[id].stepType = "NumericLimit"}
\* Status the parent step in hand was created with.
EntryStatus ==
    LET i == CHOOSE i \in Requests : log[i].op = "create_steps"
                                     /\ log[i].ok /\ log[i].id = parent_step.stepId
    IN  log[i].status
\* Some child created under the parent step in hand was Failed.
SomeChildFailed ==
    \E i \in Requests : /\ IsChildCreate(log[i]) /\ log[i].ok
                        /\ log[i].parentId = parent_step.stepId
                        /\ log[i].status = "FAILED"

\* ------------------------------------------------------------------ C1
\* C1: in a run without store error, the update_results request carries
\* Failed if some parent step ended Failed and Passed if all ended Passed.
C1_CloseResult ==
    (pc = "done" /\ ~raised) =>
        /\ log[Len(log)].op = "update_results"
        /\ log[Len(log)].status =
              IF \E id \in ParentIds : store_steps[id].status = "FAILED"
              THEN "FAILED" ELSE "PASSED"

\* ------------------------------------------------------------------ C2
\* C2: when the child just created is Failed, the parent is Failed after
\* the child is processed, in memory and on the store, whatever it was before.
C2_FailureDominance ==
    [][(pc = "fold" /\ status = "FAILED") =>
          /\ parent_step'.status = "FAILED"
          /\ parent_step'.stepId = parent_step.stepId
          /\ (pc' = "child_loop" =>
                 /\ store_steps'[parent_step.stepId].status = "FAILED"
                 /\ log'[Len(log')].op = "update_steps"
                 /\ log'[Len(log')].id = parent_step.stepId
                 /\ log'[Len(log')].status = "FAILED")]_vars

\* A parent that entered as Passed has been failed by a Failed child.
C2_Witness ==
    /\ pc = "child_loop"
    /\ voltage > 0
    /\ status = "FAILED"
    /\ EntryStatus = "PASSED"
    /\ parent_step.status = "FAILED"
    /\ store_steps[parent_step.stepId].status = "FAILED"

\* ------------------------------------------------------------------ C3
\* C3: closing a Running parent makes it Passed and submits that update;
\* closing a Failed or Passed parent changes nothing and submits nothing;
\* a closed parent is not Running, so closing again changes nothing; a
\* parent created Running ends Passed exactly if no child of it was Failed.
C3_CloseParent ==
    /\ [][(pc = "child_loop" /\ voltage >= NumVoltages /\ pc' = "main_loop") =>
             /\ IF parent_step.status = "RUNNING"
                THEN /\ parent_step'.status = "PASSED"
                     /\ Len(log') = Len(log) + 1
                     /\ log'[Len(log')].op = "update_steps"
                     /\ log'[Len(log')].id = parent_step.stepId
                     /\ log'[Len(log')].status = "PASSED"
                     /\ store_steps'[parent_step.stepId].status = "PASSED"
                ELSE /\ parent_step' = parent_step
                     /\ log' = log
                     /\ store_steps' = store_steps
             /\ parent_step'.status # "RUNNING"]_vars
    /\ [](pc = "main_loop" /\ current > 0 /\ EntryStatus = "RUNNING" =>
             (parent_step.status = "PASSED" <=> ~SomeChildFailed))

\* A parent created Running has been closed as Passed.
C3_Witness ==
    /\ pc = "main_loop"
    /\ current > 0
    /\ EntryStatus = "RUNNING"
    /\ ~SomeChildFailed
    /\ parent_step.status = "PASSED"
    /\ log[Len(log)].op = "update_steps"
    /\ log[Len(log)].status = "PASSED"

\* ------------------------------------------------------------------ C4
\* C4: the child step created has status Passed exactly if
\* low <= power <= high, and Failed otherwise.
C4_LeafEvaluation ==
    pc = "fold" =>
        /\ status \in Terminal
        /\ (status = "PASSED" <=>
               (low_limit * PowerDen <= power /\ power <= high_limit * PowerDen))
        /\ IsChildCreate(log[Len(log)])
        /\ log[Len(log)].status = status

\* A measurement equal to both limits has passed.
C4_Witness ==
    /\ pc = "fold"
    /\ low_limit > 0
    /\ power = low_limit * PowerDen
    /\ power = high_limit * PowerDen
    /\ status = "PASSED"

\* ------------------------------------------------------------------ C5
\* C5: once a request for an entity carries a terminal status, every later
\* request for the same entity carries that same status.
C5_NoFlapping ==
    \A i \in Requests : \A j \in Requests :
        (i < j /\ log[i].id # None /\ log[i].id = log[j].id
               /\ log[i].status \in Terminal)
            => log[j].status = log[i].status

\* A parent submitted as Failed has been submitted again.
C5_Witness ==
    \E i \in Requests : \E j \in Requests :
        /\ i < j
        /\ log[i].op = "update_steps" /\ log[i].status = "FAILED" /\ log[i].ok
        /\ log[j].op = "update_steps" /\ log[j].id = log[i].id /\ log[j].ok

\* ------------------------------------------------------------------ C6
\* C6: processing a Passed child leaves the parent in memory as it was and
\* submits no request.
C6_PassingChildFrame ==
    [][(pc = "fold" /\ status = "PASSED") =>
          /\ parent_step' = parent_step
          /\ log' = log
          /\ store_steps' = store_steps
          /\ store_results' = store_results]_vars

\* A Passed child has been processed under a parent that was Failed already.
C6_Witness ==
    /\ pc = "child_loop"
    /\ voltage > 0
    /\ status = "PASSED"
    /\ parent_step.status = "FAILED"
    /\ log[Len(log)].op = "create_steps"

\* ------------------------------------------------------------------ C7
\* C7: every step submitted to create_steps carries the id the store gave
\* the result of this run; a child carries the stepId of a step created
\* earlier under that result; a parent carries parentId None.
C7_Identity ==
    \A i \in Requests :
        log[i].op = "create_steps" =>
            /\ log[i].resultId # None
            /\ log[1].op = "create_results" /\ log[1].ok
            /\ log[i].resultId = log[1].id
            /\ log[i].resultId \in DOMAIN store_results
            /\ IsParentCreate(log[i]) => log[i].parentId = None
            /\ IsChildCreate(log[i]) =>
                  \E j \in Requests :
                      /\ j < i
                      /\ log[j].op = "create_steps" /\ log[j].ok
                      /\ log[j].id = log[i].parentId
                      /\ log[j].id # None
                      /\ log[j].resultId = log[i].resultId

\* A child step has been created under the second parent of the run.
C7_Witness ==
    /\ current = 1
    /\ pc = "fold"
    /\ IsChildCreate(log[Len(log)])
    /\ log[Len(log)].ok
    /\ log[Len(log)].parentId = parent_step.stepId

\* ------------------------------------------------------------------ C8
\* C8: when update_results is submitted, all 10 parents and all 100
\* children have been created, every parent's last submitted status is
\* terminal, and no request follows.
C8_JoinBeforeClose ==
    \A i \in Requests :
        log[i].op = "update_results" =>
            /\ i = Len(log)
            /\ Cardinality({j \in 1..(i - 1) :
                   IsParentCreate(log[j]) /\ log[j].ok}) = NumCurrents
            /\ Cardinality({j \in 1..(i - 1) :
                   IsChildCreate(log[j]) /\ log[j].ok}) = NumCurrents * NumVoltages
            /\ Cardinality(ParentIds) = NumCurrents
            /\ Cardinality(ChildIds) = NumCurrents * NumVoltages
            /\ \A id \in ParentIds : store_steps[id].status \in Terminal

\* update_results has been submitted.
C8_Witness ==
    /\ pc = "done"
    /\ ~raised
    /\ log[Len(log)].op = "update_results"

\* ------------------------------------------------------------------ C9
\* C9: the result is created Running, is Running until the one
\* update_results, which comes after all steps, and is not changed after it.
C9_ResultLifecycle ==
    /\ [](\A i \in Requests :
             /\ log[i].op = "create_results" => log[i].status = "RUNNING"
             /\ log[i].op = "update_results" =>
                   Cardinality(DOMAIN store_steps)
                       = NumCurrents + NumCurrents * NumVoltages)
    /\ []((\A i \in Requests : log[i].op # "update_results") =>
             /\ test_result.status = "RUNNING"
             /\ \A id \in DOMAIN store_results :
                    store_results[id].status = "RUNNING")
    /\ [](Cardinality({i \in Requests : log[i].op = "update_results"}) <= 1)
    /\ [][(\E i \in Requests : log[i].op = "update_results") =>
             /\ store_results' = store_results
             /\ test_result' = test_result
             /\ log' = log]_vars

\* The result has been created and, after the sweep, updated.
C9_Witness ==
    /\ pc = "done"
    /\ log[1].op = "create_results"
    /\ log[Len(log)].op = "update_results"
    /\ log[Len(log)].ok
    /\ test_result.id \in DOMAIN store_results

\* ----------------------------------------------------------------- C10
\* C10: once a store call has raised, no request is issued and the store
\* is not changed; the raising call itself changes nothing on the store;
\* the exception is printed once, and only when a call has raised.
C10_AbortOnError ==
    /\ [][raised => /\ log' = log
                    /\ store_steps' = store_steps
                    /\ store_results' = store_results]_vars
    /\ [][(~raised /\ raised') =>
             /\ store_steps' = store_steps
             /\ store_results' = store_results
             /\ Len(log') = Len(log) + 1
             /\ ~log'[Len(log')].ok
             /\ pc' = "except"]_vars
    /\ [](printed <= 1)
    /\ [](pc = "done" => printed = IF raised THEN 1 ELSE 0)
    /\ [](\A i \in Requests : ~log[i].ok => (raised /\ i = Len(log)))

\* A store call raised in the middle of the sweep and main has ended.
C10_Witness ==
    /\ pc = "done"
    /\ raised
    /\ printed = 1
    /\ Len(log) > 2
    /\ DOMAIN store_steps # {}

\* ----------------------------------------------------------------- C11
\* C11: the power measured for a child lies between 0.5625 * current *
\* voltage and current * voltage; the inputs returned are the current and
\* the voltage given, and the one output is the power returned.
C11_MeasurementBound ==
    pc = "fold" =>
        /\ 0 <= power
        /\ power <= current * voltage * PowerDen
        /\ 16 * power >= 9 * current * voltage * PowerDen
        /\ step_data[1].inputs =
              << <<[name |-> "current", value |-> current],
                   [name |-> "voltage", value |-> voltage]>> >>
        /\ Len(step_data[1].outputs[1]) = 1
        /\ step_data[1].outputs[1][1].name = "power"
        /\ step_data[1].outputs[1][1].value = power
        /\ step_data[1].data[1].parameters[1].measurement = power

\* A measurement with loss: positive and below current * voltage.
C11_Witness ==
    /\ pc = "fold"
    /\ 0 < power
    /\ power < current * voltage * PowerDen
    /\ step_data[1].outputs[1][1].value = power

\* Requests that mark the step id Failed, and Failed children created under it.
FailedUpdates(id) ==
    {i \in Requests : /\ log[i].op = "update_steps" /\ log[i].id = id
                      /\ log[i].status = "FAILED"}
FailedChildren(id) ==
    {i \in Requests : /\ IsChildCreate(log[i]) /\ log[i].ok
                      /\ log[i].parentId = id /\ log[i].status = "FAILED"}

CurrentOf(r) == r.inputs[1][1].value
VoltageOf(r) == r.inputs[1][2].value
\* Children created under parent id by the requests before request i.
ChildrenBefore(id, i) ==
    {j \in 1..(i - 1) : IsChildCreate(log[j]) /\ log[j].ok /\ log[j].parentId = id}
\* The last request before request i that names step id.
LastFor(id, i) ==
    LET K == {k \in 1..(i - 1) : log[k].id = id}
    IN  CHOOSE k \in K : \A m \in K : m <= k

\* ----------------------------------------------------------------- C13
\* C13: the children of a parent are created in the order voltage 0, 1,
\* 2, ...; a Failed child's creation is followed at once by the update
\* marking its parent Failed; a child is created under the parent created
\* last, and a parent is created only when every earlier parent has all
\* its children and a terminal status submitted.
C13_OrderedPropagation ==
    \A i \in Requests :
        /\ (IsChildCreate(log[i]) /\ log[i].ok) =>
              /\ VoltageOf(log[i]) = Cardinality(ChildrenBefore(log[i].parentId, i))
              /\ log[i].status = "FAILED" =>
                    IF i = Len(log) THEN pc = "fold"
                    ELSE /\ log[i + 1].op = "update_steps"
                         /\ log[i + 1].id = log[i].parentId
                         /\ log[i + 1].status = "FAILED"
        /\ IsChildCreate(log[i]) =>
              \E j \in 1..(i - 1) :
                  /\ IsParentCreate(log[j]) /\ log[j].ok
                  /\ log[j].id = log[i].parentId
                  /\ \A k \in (j + 1)..(i - 1) : ~IsParentCreate(log[k])
        /\ IsParentCreate(log[i]) =>
              \A j \in 1..(i - 1) :
                  (IsParentCreate(log[j]) /\ log[j].ok) =>
                      /\ Cardinality(ChildrenBefore(log[j].id, i)) = NumVoltages
                      /\ log[LastFor(log[j].id, i)].status \in Terminal
                      /\ \A k \in i..Len(log) :
                             log[k].id # log[j].id /\ log[k].parentId # log[j].id

\* A Failed child, the update failing its parent, then the next child.
C13_Witness ==
    \E i \in Requests :
        /\ i + 2 <= Len(log)
        /\ IsChildCreate(log[i]) /\ log[i].status = "FAILED"
        /\ log[i + 1].op = "update_steps" /\ log[i + 1].ok
        /\ IsChildCreate(log[i + 2]) /\ log[i + 2].ok
        /\ log[i + 2].parentId = log[i].parentId
        /\ VoltageOf(log[i + 2]) = VoltageOf(log[i]) + 1

\* ----------------------------------------------------------------- C14
\* C14: generate_step_data gives status Running when no status is
\* supplied and the supplied status otherwise; every parent is submitted
\* to create_steps as Running and every child as Passed or Failed.
C14_StatusAtCreation ==
    /\ generate_step_data("n", "t", <<>>, <<>>, <<>>, <<>>).status = "RUNNING"
    /\ \A st \in StatusTypes :
          generate_step_data("n", "t", <<>>, <<>>, <<>>, <<st>>).status = st
    /\ \A i \in Requests :
          /\ IsParentCreate(log[i]) => log[i].status = "RUNNING"
          /\ IsChildCreate(log[i]) => log[i].status \in Terminal
    /\ pc = "fold" => /\ step_data[1].status = status
                      /\ measure_power_output_step.status = status

\* A Failed child has been created under a parent created Running.
C14_Witness ==
    /\ pc = "fold"
    /\ IsChildCreate(log[Len(log)])
    /\ log[Len(log)].status = "FAILED"
    /\ \E j \in Requests : /\ IsParentCreate(log[j])
                           /\ log[j].id = log[Len(log)].parentId
                           /\ log[j].status = "RUNNING"

\* The number a decimal text denotes.
RECURSIVE DecimalValue(_)
DecimalValue(d) ==
    IF Len(d) = 0 THEN 0
    ELSE 10 * DecimalValue(SubSeq(d, 1, Len(d) - 1)) + d[Len(d)]

\* ----------------------------------------------------------------- C15
\* C15: a SequenceCall step is submitted without measurement parameters,
\* inputs or outputs; a NumericLimit step is submitted with one comparison
\* parameter, of kind GELE, with the step's own status and the limits the
\* measurement was tested against; the parent named by a step is always a
\* SequenceCall step.
C15_ContainerLeafShape ==
    \A i \in Requests :
        /\ log[i].stepType = "SequenceCall" =>
              /\ log[i].data = <<>>
              /\ ~log[i].hasInputs
              /\ ~log[i].hasOutputs
        /\ log[i].stepType = "NumericLimit" =>
              /\ Len(log[i].data) = 1
              /\ Len(log[i].data[1]) = 1
              /\ log[i].data[1][1].comparisonType = "GELE"
              /\ log[i].data[1][1].status = log[i].status
              /\ DecimalValue(log[i].data[1][1].lowLimit) = low_limit
              /\ DecimalValue(log[i].data[1][1].highLimit) = high_limit
              /\ log[i].hasInputs
              /\ log[i].hasOutputs
              /\ log[i].parentId \in ParentIds
        /\ log[i].parentId # None => log[i].stepType = "NumericLimit"
        /\ log[i].op \in {"create_steps", "update_steps"} =>
              log[i].stepType \in {"SequenceCall", "NumericLimit"}

\* A leaf has been submitted with limits "0" and "70" under a container.
C15_Witness ==
    /\ pc = "fold"
    /\ log[Len(log)].stepType = "NumericLimit"
    /\ log[Len(log)].data[1][1].lowLimit = <<0>>
    /\ log[Len(log)].data[1][1].highLimit = <<7, 0>>
    /\ store_steps[log[Len(log)].parentId].stepType = "SequenceCall"

\* ----------------------------------------------------------------- C16
\* C16: create_results is submitted at most once; no step id is given out
\* by create_steps twice; update_steps names a SequenceCall step, never a
\* child, and always the parent created last, which is the one in hand.
C16_CreateOnceWriteOnce ==
    /\ [](Cardinality({i \in Requests : log[i].op = "create_results"}) <= 1)
    /\ [](\A i \in Requests : \A j \in Requests :
             (i < j /\ log[i].op = "create_steps" /\ log[i].ok
                    /\ log[j].op = "create_steps" /\ log[j].ok)
                 => log[i].id # log[j].id)
    /\ [](\A i \in Requests :
             log[i].op = "update_steps" =>
                 /\ log[i].stepType = "SequenceCall"
                 /\ log[i].id \notin ChildIds
                 /\ \E j \in 1..(i - 1) :
                       /\ IsParentCreate(log[j]) /\ log[j].ok
                       /\ log[j].id = log[i].id
                       /\ \A k \in (j + 1)..(i - 1) : ~IsParentCreate(log[k]))
    /\ [][(Len(log') > Len(log) /\ log'[Len(log')].op = "update_steps") =>
             log'[Len(log')].id = parent_step.stepId]_vars
    /\ [](\A id \in ChildIds :
             \E i \in Requests : /\ IsChildCreate(log[i]) /\ log[i].id = id
                                 /\ store_steps[id].status = log[i].status)

\* The parent of a later group has been updated while children exist.
C16_Witness ==
    /\ current >= 1
    /\ ChildIds # {}
    /\ log[Len(log)].op = "update_steps"
    /\ log[Len(log)].ok
    /\ log[Len(log)].id = parent_step.stepId
    /\ log[Len(log)].status = "FAILED"

\* ----------------------------------------------------------------- C17
\* C17: main ends; when it ends without a raise it has submitted exactly
\* 1 create_results, 10 parent and 100 child create_steps, 10 under each
\* parent, and 1 update_results, and every parent's last status is terminal.
C17_Termination ==
    /\ <>(pc = "done")
    /\ []((pc = "done" /\ ~raised) =>
             /\ Cardinality({i \in Requests : log[i].op = "create_results"}) = 1
             /\ Cardinality({i \in Requests : IsParentCreate(log[i])}) = NumCurrents
             /\ Cardinality({i \in Requests : IsChildCreate(log[i])})
                   = NumCurrents * NumVoltages
             /\ Cardinality({i \in Requests : log[i].op = "update_results"}) = 1
             /\ Cardinality(ParentIds) = NumCurrents
             /\ \A id \in ParentIds :
                    /\ Cardinality(ChildrenBefore(id, Len(log))) = NumVoltages
                    /\ store_steps[id].status \in Terminal
                    /\ log[LastFor(id, Len(log))].status \in Terminal)

\* main has ended without a raise, with all 110 steps on the store.
C17_Witness ==
    /\ pc = "done"
    /\ ~raised
    /\ printed = 0
    /\ Cardinality(DOMAIN store_steps) = NumCurrents + NumCurrents * NumVoltages

\* The current of the group of parent step id: parents are created in the
\* order of the sweep.
GroupOf(id) ==
    Cardinality({j \in Requests : IsParentCreate(log[j]) /\ log[j].ok
                                  /\ log[j].id < id})
FailingPairs == {<<8, 9>>, <<9, 8>>, <<9, 9>>}

\* ----------------------------------------------------------------- C18
\* C18: a child is Failed only for (current, voltage) in (8,9), (9,8),
\* (9,9); the parents for currents 0..7 end Passed when no call raises,
\* and a parent is Failed only for current 8 or 9.
C18_WhichGroupsFail ==
    /\ \A i \in Requests :
          (IsChildCreate(log[i]) /\ log[i].status = "FAILED") =>
              <<CurrentOf(log[i]), VoltageOf(log[i])>> \in FailingPairs
    /\ \A id \in ParentIds :
          /\ store_steps[id].status = "FAILED" => GroupOf(id) \in {8, 9}
          /\ (GroupOf(id) <= 7 /\ (GroupOf(id) < current \/ pc = "done")
                 /\ ~raised) => store_steps[id].status = "PASSED"
    /\ (pc = "main_loop" /\ current > 0 /\ current <= 8) =>
          parent_step.status = "PASSED"

\* The parent for current 8 has ended Failed.
C18_Witness ==
    /\ pc = "main_loop"
    /\ current = 9
    /\ parent_step.status = "FAILED"
    /\ GroupOf(parent_step.stepId) = 8
    /\ \E i \in Requests : /\ IsChildCreate(log[i]) /\ log[i].status = "FAILED"
                           /\ CurrentOf(log[i]) = 8 /\ VoltageOf(log[i]) = 9

TypeOK ==
    /\ pc \in {"start", "main_loop", "child_loop", "fold", "except", "done"}
    /\ current \in 0..NumCurrents
    /\ voltage \in 0..NumVoltages
    /\ status \in StatusTypes
    /\ parent_step.status \in StatusTypes
    /\ test_result.status \in StatusTypes
    /\ printed \in Nat
    /\ raised \in BOOLEAN
====
